---------------------------- MODULE Spec2Model ----------------------------
(***************************************************************************)
(* gcs-helper: the prefix-to-manifest mapping engine.                      *)
(*                                                                         *)
(* One HTTP request is followed from getHandler through getMapHandler,     *)
(* getPrefixMapping / getPrefixes / expandPrefix (with its retry loop over *)
(* the object iterator), appendExtraResources and signedURLs / signedPath  *)
(* to the response.  Go strings are sequences of one-character strings, so *)
(* that strings.Contains, strings.Replace, strings.SplitN, path.Split,     *)
(* path.Join and filepath.Base are computed the way the library computes   *)
(* them.  The object lister, the URL signer and the clock are the          *)
(* environment: their outcomes are chosen nondeterministically.            *)
(***************************************************************************)
EXTENDS Integers, Sequences, FiniteSets, TLC

(***************************************************************************)
(* Strings                                                                 *)
(***************************************************************************)
SLASH == "/"

EMPTY == << >>

\* strings.HasPrefix(s, p)
HasPrefix(s, p) == Len(p) <= Len(s) /\ SubSeq(s, 1, Len(p)) = p

\* strings.HasSuffix(s, p)
HasSuffix(s, p) == Len(p) <= Len(s) /\ SubSeq(s, Len(s) - Len(p) + 1, Len(s)) = p

\* The positions (1-based) at which sub occurs in s.
Occurrences(s, sub) ==
    {k \in 1..(Len(s) - Len(sub) + 1) : SubSeq(s, k, k + Len(sub) - 1) = sub}

\* strings.Index(s, sub), 1-based; 0 when sub does not occur.
Index(s, sub) ==
    IF Occurrences(s, sub) = {} THEN 0
    ELSE CHOOSE k \in Occurrences(s, sub) : \A j \in Occurrences(s, sub) : k <= j

\* strings.Contains(s, sub)
Contains(s, sub) == Index(s, sub) # 0

\* strings.Replace(s, old, "", -1): every occurrence of old is removed.
ReplaceAll(s, old) ==
    LET RECURSIVE strip(_)
        strip(t) == IF Index(t, old) = 0 \/ old = EMPTY THEN t
                    ELSE strip(SubSeq(t, 1, Index(t, old) - 1)
                               \o SubSeq(t, Index(t, old) + Len(old), Len(t)))
    IN strip(s)

\* strings.Replace(s, old, "", 1): the first occurrence of old is removed.
ReplaceFirst(s, old) ==
    IF Index(s, old) = 0 THEN s
    ELSE SubSeq(s, 1, Index(s, old) - 1) \o SubSeq(s, Index(s, old) + Len(old), Len(s))

\* strings.TrimLeft(s, "/")
RECURSIVE TrimLeftSlash(_)
TrimLeftSlash(s) ==
    IF s # EMPTY /\ Head(s) = SLASH THEN TrimLeftSlash(Tail(s)) ELSE s

\* The last position of c in s, 0 when c does not occur (strings.LastIndex).
LastIndexOf(s, c) ==
    IF \A k \in 1..Len(s) : s[k] # c THEN 0
    ELSE CHOOSE k \in 1..Len(s) : s[k] = c /\ \A j \in (k + 1)..Len(s) : s[j] # c

\* strings.Split(s, sep) for a one-character sep: the pieces between the seps.
RECURSIVE SplitOn(_, _)
SplitOn(s, c) ==
    IF \A k \in 1..Len(s) : s[k] # c THEN << s >>
    ELSE LET k == CHOOSE i \in 1..Len(s) : s[i] = c /\ \A j \in 1..(i - 1) : s[j] # c
         IN << SubSeq(s, 1, k - 1) >> \o SplitOn(SubSeq(s, k + 1, Len(s)), c)

\* strings.SplitN(s, "/", n), n > 0: at most n pieces, the last one unsplit.
RECURSIVE SplitN(_, _, _)
SplitN(s, c, n) ==
    IF n <= 1 \/ \A k \in 1..Len(s) : s[k] # c THEN << s >>
    ELSE LET k == CHOOSE i \in 1..Len(s) : s[i] = c /\ \A j \in 1..(i - 1) : s[j] # c
         IN << SubSeq(s, 1, k - 1) >> \o SplitN(SubSeq(s, k + 1, Len(s)), c, n - 1)

\* strings.Join(parts, sep)
RECURSIVE JoinWith(_, _)
JoinWith(parts, sep) ==
    IF parts = << >> THEN EMPTY
    ELSE IF Len(parts) = 1 THEN parts[1]
    ELSE parts[1] \o sep \o JoinWith(Tail(parts), sep)

\* path.Split(p): (dir, file), file being what follows the last slash.
PathSplitFile(p) == SubSeq(p, LastIndexOf(p, SLASH) + 1, Len(p))

\* path.Clean(p) for a non-empty p: empty and "." elements dropped, ".."
\* elements resolved, no trailing slash; "." when nothing is left.
RECURSIVE CleanElems(_, _, _)
CleanElems(elems, acc, rooted) ==
    IF elems = << >> THEN acc
    ELSE LET e == Head(elems) IN
         IF e = EMPTY \/ e = << "." >> THEN CleanElems(Tail(elems), acc, rooted)
         ELSE IF e = << ".", "." >> THEN
              IF acc # << >> /\ acc[Len(acc)] # << ".", "." >>
                  THEN CleanElems(Tail(elems), SubSeq(acc, 1, Len(acc) - 1), rooted)
              ELSE IF rooted THEN CleanElems(Tail(elems), acc, rooted)
              ELSE CleanElems(Tail(elems), Append(acc, e), rooted)
         ELSE CleanElems(Tail(elems), Append(acc, e), rooted)

PathClean(p) ==
    LET rooted == p # EMPTY /\ Head(p) = SLASH
        out == JoinWith(CleanElems(SplitOn(p, SLASH), << >>, rooted), << SLASH >>)
    IN IF rooted THEN << SLASH >> \o out
       ELSE IF out = EMPTY THEN << "." >> ELSE out

\* a + b: plain concatenation, no separator added and nothing cleaned.
PathConcat(a, b) == a \o b

\* path.Join(a, b): the non-empty elements joined by a slash and cleaned; ""
\* when both are empty.
PathJoin(a, b) ==
    LET elems == SelectSeq(<< a, b >>, LAMBDA e : e # EMPTY)
    IN IF elems = << >> THEN EMPTY ELSE PathClean(JoinWith(elems, << SLASH >>))

\* filepath.Base(name): the last element, trailing slashes removed first.
RECURSIVE TrimRightSlash(_)
TrimRightSlash(s) ==
    IF s # EMPTY /\ s[Len(s)] = SLASH THEN TrimRightSlash(SubSeq(s, 1, Len(s) - 1)) ELSE s

FilepathBase(name) ==
    IF name = EMPTY THEN << "." >>
    ELSE IF TrimRightSlash(name) = EMPTY THEN << SLASH >>
    ELSE PathSplitFile(TrimRightSlash(name))


(***************************************************************************)
(* Program constants and the values of the environment                     *)
(***************************************************************************)
\* const maxTry = 5
maxTryOffByOne == 5 + 1

maxTry == 5

\* The marker expandPrefix looks for: "__HD".
HDMarker == << "_", "_", "H", "D" >>

\* error values: nil, iterator.Done, and the errors a listing can end with.
Nil == "nil"

Done == "iterator.Done"

ListErrors == {"e1", "e2"}

\* The error storage.SignedURL (or url.Parse) can return.
SignErrors == {"sign failed"}

\* The last instant the clock reaches.
MaxTime == 2

\* One decimal digit as a character.
Digit(n) == << "0", "1", "2", "3", "4", "5", "6", "7", "8", "9" >>[n + 1]

(***************************************************************************)
(* Inputs: configurations and requests                                     *)
(***************************************************************************)
\* A filter pattern: either malformed, or a literal anchored at the end
\* ("<suffix>$"); the empty suffix is the empty pattern, which matches all.
RegexP == [valid |-> TRUE, suffix |-> << "p" >>]

RegexH == [valid |-> TRUE, suffix |-> << "h" >>]

RegexBad == [valid |-> FALSE, suffix |-> << >>]

BucketName == << "B" >>

ExtraPrefixConfigs ==
    { << >>,
      << << "s", "/" >> >>,
      << << "s", "/" >>, << "t" >> >>,
      << << "s", "/" >>, << "s", "/" >> >> }

SignConfigs ==
    { [AccessID |-> << >>, PrivateKey |-> "key", Expiration |-> 1],
      [AccessID |-> << "i" >>, PrivateKey |-> "key", Expiration |-> 1] }

\* A SignConfig with an access identity and no private key.
SignConfigNoKey == [AccessID |-> << "i" >>, PrivateKey |-> Nil, Expiration |-> 1]

\* The configurations: every list of alternate prefixes with signing disabled
\* and enabled under two patterns that compile, one configuration without a
\* private key, one whose standard pattern does not compile, and two whose
\* map prefix is "/" and "".
Configs ==
    [ BucketName : {BucketName},
      MapPrefix : {<< "/", "m", "/" >>},
      MapExtraPrefixes : ExtraPrefixConfigs,
      MapRegexFilter : {RegexP},
      MapRegexHDFilter : {RegexH},
      SignConfig : SignConfigs ]
    \cup
    [ BucketName : {BucketName},
      MapPrefix : {<< "/", "m", "/" >>},
      MapExtraPrefixes : {<< >>},
      MapRegexFilter : {RegexP},
      MapRegexHDFilter : {RegexH},
      SignConfig : {SignConfigNoKey} ]
    \cup
    [ BucketName : {BucketName},
      MapPrefix : {<< "/", "m", "/" >>},
      MapExtraPrefixes : {<< << "s", "/" >> >>},
      MapRegexFilter : {RegexBad},
      MapRegexHDFilter : {RegexH},
      SignConfig : {[AccessID |-> << "i" >>, PrivateKey |-> "key", Expiration |-> 1]} ]
    \cup
    [ BucketName : {BucketName},
      MapPrefix : {<< "/" >>, << >>},
      MapExtraPrefixes : {<< >>},
      MapRegexFilter : {RegexP},
      MapRegexHDFilter : {RegexH},
      SignConfig : {[AccessID |-> << >>, PrivateKey |-> "key", Expiration |-> 1]} ]

\* Request paths: "/m/" followed by the logical prefix, "/" and "/x".
RequestPaths ==
    { << "/", "m", "/", "f", "/", "b", "/", "a" >>,
      << "/", "m", "/", "f", "/", "b", "/", "a", "_", "_", "H", "D" >>,
      << "/", "m", "/", "a", "_", "_", "H", "D", "_", "_", "H", "D" >>,
      << "/", "m", "/", "f", "_", "_", "H", "D", "/", "a" >>,
      << "/", "m", "/", "f", "/", "b", "/" >>,
      << "/", "m", "/", "/", "a" >>,
      << "/", "m", "/", "_", "_", "H", "D" >>,
      << "/", "m", "/" >>,
      << "/" >>,
      << "/", "x" >> }

\* The value of the extra-resources query parameter ("" when it is absent).
RequestResources ==
    { << >>,
      << "x", ",", ",", "y", "/", "z", "/", "w" >>,
      << "/", "B", "/", "k" >> }

Requests ==
    [ Method : {"GET", "POST"}, Path : RequestPaths, Resources : RequestResources ]

\* The bucket, in listing order, at two moments: an object may appear between
\* two listing attempts.
Obj(name) == [Bucket |-> BucketName, Name |-> name]

StoreFull ==
    << Obj(<< "a", "1", "p" >>),
       Obj(<< "a", "_", "_", "H", "D", "1", "h" >>),
       Obj(<< "f", "/", "a", "1", "h" >>),
       Obj(<< "f", "/", "b", "/", "a", "1", "p" >>),
       Obj(<< "f", "/", "b", "/", "a", "2", "h" >>),
       Obj(<< "f", "/", "b", "/", "a", "3", "p" >>),
       Obj(<< "s", "/", "a", "1", "p" >>),
       Obj(<< "s", "/", "a", "2", "h" >>),
       Obj(<< "t", "/", "a", "1", "p" >>) >>

StoreEarly ==
    SelectSeq(StoreFull, LAMBDA o : o.Name # << "f", "/", "b", "/", "a", "1", "p" >>)

Stores == {StoreFull, StoreEarly}

\* bucketHandle.Objects(ctx, &storage.Query{Prefix: p, Delimiter: "/"}): the
\* objects whose name starts with p and has no slash after it.
Listing(store, p) ==
    SelectSeq(store, LAMBDA o :
        /\ HasPrefix(o.Name, p)
        /\ ~Contains(SubSeq(o.Name, Len(p) + 1, Len(o.Name)), << SLASH >>))

(***************************************************************************)
(* Pure functions of the engine                                            *)
(***************************************************************************)
\* regexp.MatchString(pattern, s): (false, err) for a malformed pattern.
\* regexp.MatchString where a pattern that does not compile matches
\* everything.
MatchStringLenient(pattern, s) == ~pattern.valid \/ HasSuffix(s, pattern.suffix)

MatchString(pattern, s) == pattern.valid /\ HasSuffix(s, pattern.suffix)

\* clip{Type: "source", Path: p} in a sequence of its own.
\* A Sequence for an object or a resource whose Clip has no type.
ClipSequenceUntyped(p) == [Clips |-> << [Type |-> "", Path |-> p] >>]

ClipSequence(p) == [Clips |-> << [Type |-> "source", Path |-> p] >>]

\* getPrefixes(originalPrefix, config)
\* getPrefixes with the marker taken out of the last part before it is joined
\* to the alternate prefixes.
getPrefixesStripped(originalPrefix, cfg) ==
    << originalPrefix >> \o
    [k \in 1..Len(cfg.MapExtraPrefixes) |->
        PathJoin(cfg.MapExtraPrefixes[k],
                 ReplaceFirst(PathSplitFile(originalPrefix), HDMarker))]

getPrefixes(originalPrefix, cfg) ==
    << originalPrefix >> \o
    [k \in 1..Len(cfg.MapExtraPrefixes) |->
        PathJoin(cfg.MapExtraPrefixes[k], PathSplitFile(originalPrefix))]

\* expandPrefix, lines 306-311: the filter and the prefix sent to the lister.
SelectFilter(p, cfg) ==
    IF Contains(p, HDMarker) THEN cfg.MapRegexHDFilter ELSE cfg.MapRegexFilter

ListerPrefix(p) ==
    IF Contains(p, HDMarker) THEN ReplaceFirst(p, HDMarker) ELSE p

\* expandPrefix, line 318: each attempt starts from an empty result.
NewAttemptSequencesKept(seqs) == seqs

NewAttemptSequences(seqs) == << >>

\* expandPrefix, lines 321-327: one listed object.
AddObject(seqs, obj, regex) ==
    IF MatchString(regex, FilepathBase(obj.Name))
    THEN Append(seqs, ClipSequence(<< SLASH >> \o obj.Bucket \o << SLASH >> \o obj.Name))
    ELSE seqs

\* getPrefixMapping, line 286: the expansion failed.
ExpandFailedNever(e) == FALSE

ExpandFailed(e) == e # Nil

\* getPrefixMapping, line 289
AppendSequencesFront(ms, seqs) == seqs \o ms

AppendSequences(ms, seqs) == ms \o seqs

\* getMapHandler, line 253: the mapping failed.
MappingFailedOnDone(e) == e # Nil /\ e = Done

MappingFailed(e) == e # Nil /\ e # Done

\* getMapHandler, line 260: the signing failed.
SigningFailedNever(e) == FALSE

SigningFailed(e) == e # Nil

\* getPrefixMapping, line 283, declared without a value: 'var m mapping',
\* whose Sequences is the nil slice.
NewMappingZero == [isNil |-> TRUE, Sequences |-> << >>]

\* getPrefixMapping, line 283: m := mapping{Sequences: []sequence{}}, an
\* empty slice that is not nil.
NewMapping == [isNil |-> FALSE, Sequences |-> << >>]

\* append and assignment keep a nil slice nil as long as it holds nothing.
SliceNil(wasNil, result) == wasNil /\ result = << >>

\* appendExtraResources without the test of line 274: a Sequence for every
\* token, empty or not.
RECURSIVE AppendTokensAll(_, _)
AppendTokensAll(ms, tokens) ==
    IF tokens = << >> THEN ms
    ELSE AppendTokensAll(Append(ms, ClipSequence(Head(tokens))), Tail(tokens))

\* appendExtraResources, lines 272-278: a Sequence for every token but "".
RECURSIVE AppendTokens(_, _)
AppendTokens(ms, tokens) ==
    IF tokens = << >> THEN ms
    ELSE AppendTokens(IF Head(tokens) # EMPTY THEN Append(ms, ClipSequence(Head(tokens)))
                      ELSE ms,
                      Tail(tokens))

appendExtraResources(resources, ms) == AppendTokens(ms, SplitOn(resources, ","))

\* SignConfig.Options at time t: nil when signing is disabled.
NoOpts == [enabled |-> FALSE, Method |-> "", GoogleAccessID |-> << >>, Expires |-> 0]

OptionsExpires(sc, t) == t + sc.Expiration

\* Options with the test of line 178 on the access identity alone.
OptionsKeyIgnored(sc, t) ==
    IF sc.AccessID = EMPTY THEN NoOpts
    ELSE [enabled |-> TRUE, Method |-> "GET", GoogleAccessID |-> sc.AccessID,
          Expires |-> OptionsExpires(sc, t)]

Options(sc, t) ==
    IF sc.AccessID = EMPTY \/ sc.PrivateKey = Nil THEN NoOpts
    ELSE [enabled |-> TRUE, Method |-> "GET", GoogleAccessID |-> sc.AccessID,
          Expires |-> OptionsExpires(sc, t)]

\* signedPath, lines 358-361: the path is signed when it splits in three.
NeedsSigning(p) == Len(SplitN(p, SLASH, 3)) = 3

\* storage.SignedURL(bucket, key, opts): scheme and host ("H"), the object's
\* path and the signing query parameters.
SignedURL(bucketName, objectKey, o) ==
    << "H", SLASH >> \o bucketName \o << SLASH >> \o objectKey
    \o << "?", "E", Digit(o.Expires), "&", "A" >> \o o.GoogleAccessID \o << "&", "S" >>

\* url.Parse(raw).RequestURI(): path and query, without scheme and host.
RequestURI(raw) == Tail(raw)

\* signedPath, lines 362-372, when the signer succeeds.
signedPathOK(p, o) ==
    LET parts == SplitN(p, SLASH, 3)
    IN RequestURI(SignedURL(parts[2], parts[3], o))

\* The clips of a manifest in the order signedURLs visits them.
RECURSIVE ClipPositions(_, _)
ClipPositions(ms, s) ==
    IF s > Len(ms) THEN << >>
    ELSE [c \in 1..Len(ms[s].Clips) |-> << s, c >>] \o ClipPositions(ms, s + 1)

(***************************************************************************)
(* State                                                                   *)
(***************************************************************************)
VARIABLES
    config,       \* the Config the handlers were built with
    req,          \* the request: Method, Path (r.URL.Path), Resources
    pc,           \* where the handler is
    urlPath,      \* r.URL.Path as getMapHandler sees it
    prefixes,     \* getPrefixMapping: the physical prefixes being ranged over
    pIdx,         \* getPrefixMapping: the index of the current physical prefix
    m,            \* the mapping's Sequences
    mNil,         \* the mapping's Sequences is the nil slice
    lprefix,      \* expandPrefix: prefix, after the marker was removed
    filterRegex,  \* expandPrefix: filterRegex
    i,            \* expandPrefix: the retry counter
    err,          \* the error variable of the function that is running
    sequences,    \* expandPrefix: the sequences of the current attempt
    iterList,     \* the iterator: what this listing holds
    iterPos,      \* the iterator: how many objects it has returned
    opts,         \* signedURLs: the options SignConfig.Options returned
    signPos,      \* signedURLs: how many clips the loops have visited
    resp,         \* the response written
    now,          \* the clock
    \* History, read by the properties only:
    attempts,     \* listing attempts started for the current physical prefix
    lastOutcome,  \* how the latest ended attempt for it ended (an error or Done)
    partial,      \* the sequences its failed attempts had collected
    expanded,     \* per expanded prefix: what expandPrefix returned (ret, err)
                  \* and the objects its last listing returned before Done
    listerCalls,  \* the lister invocations: physical prefix index, Prefix, filter
    listCount,    \* the number of lister calls getPrefixMapping has made
    injectRan,    \* appendExtraResources was called
    signRan,      \* signedURLs was called
    optsAt,       \* the time at which SignConfig.Options was called
    preSign,      \* the Sequences handed to signedURLs
    signerCalls,  \* the storage.SignedURL calls: path, bucket, key, expiry, time
    shared,       \* the Config shared by the handler calls in flight at once
    inflight      \* the handler calls in flight at once: locals and outcomes

handlerVars == << config, req, pc, urlPath, prefixes, pIdx, m, mNil, lprefix, filterRegex, i, err,
           sequences, iterList, iterPos, opts, signPos, resp, now, attempts,
           lastOutcome, partial, expanded, listerCalls, listCount, injectRan,
           signRan, optsAt, preSign, signerCalls >>

vars == << handlerVars, shared, inflight >>

codeVars == << urlPath, prefixes, pIdx, m, mNil, lprefix, filterRegex, i, err, sequences,
               iterList, iterPos, opts, signPos >>

histVars == << attempts, lastOutcome, partial, expanded, listerCalls, listCount,
               injectRan, signRan, optsAt, preSign, signerCalls >>

NoResponse ==
    [status |-> 0, text |-> "", json |-> FALSE, null |-> FALSE, sequences |-> << >>]

\* http.Error(w, text, status)
HttpError(text, status) ==
    [status |-> status, text |-> text, json |-> FALSE, null |-> FALSE, sequences |-> << >>]

\* json.NewEncoder(w).Encode(m), the status being 200
JsonResponse(ms, isNil) ==
    [status |-> 200, text |-> "", json |-> TRUE, null |-> isNil, sequences |-> ms]

\* The handler's locals and the history before the request is handled.
InitHandler ==
    /\ pc = "getHandler"
    /\ urlPath = req.Path
    /\ prefixes = << >>
    /\ pIdx = 0
    /\ m = << >>
    /\ mNil = TRUE
    /\ lprefix = EMPTY
    /\ filterRegex = RegexBad
    /\ i = 0
    /\ err = Nil
    /\ sequences = << >>
    /\ iterList = << >>
    /\ iterPos = 0
    /\ opts = NoOpts
    /\ signPos = 0
    /\ resp = NoResponse
    /\ now = 0
    /\ attempts = 0
    /\ lastOutcome = Nil
    /\ partial = {}
    /\ expanded = << >>
    /\ listerCalls = {}
    /\ listCount = 0
    /\ injectRan = FALSE
    /\ signRan = FALSE
    /\ optsAt = 0
    /\ preSign = << >>
    /\ signerCalls = << >>

Init ==
    /\ config \in Configs
    /\ req \in Requests
    /\ InitHandler
    /\ shared = config
    /\ inflight = << >>

\* expandPrefix, line 312, without the increment of the retry counter.
NextTrySame(n) == n

\* expandPrefix, line 312: the retry counter after an attempt, i++.
NextTry(n) == n + 1

(***************************************************************************)
(* getHandler (server.go)                                                  *)
(***************************************************************************)
\* getHandler, lines 14-21, with the test of the path "/" before the test of
\* the map prefix.
RouteHealthFirst(p, mapPrefix) ==
    IF p = << SLASH >> THEN "health"
    ELSE IF HasPrefix(p, mapPrefix) THEN "map"
    ELSE "notFound"

\* getHandler, lines 14-21: the case of the switch a path takes, the first
\* whose condition holds.
Route(p, mapPrefix) ==
    IF HasPrefix(p, mapPrefix) THEN "map"
    ELSE IF p = << SLASH >> THEN "health"
    ELSE "notFound"

Dispatch ==
    /\ pc = "getHandler"
    /\ IF Route(req.Path, config.MapPrefix) = "map"
       THEN /\ urlPath' = ReplaceFirst(req.Path, config.MapPrefix)
            /\ pc' = "getMapHandler"
            /\ resp' = resp
       ELSE IF Route(req.Path, config.MapPrefix) = "health"
       THEN /\ resp' = [NoResponse EXCEPT !.status = 200]
            /\ pc' = "done"
            /\ urlPath' = urlPath
       ELSE /\ resp' = HttpError("not found", 404)
            /\ pc' = "done"
            /\ urlPath' = urlPath
    /\ UNCHANGED << config, req, prefixes, pIdx, m, mNil, lprefix, filterRegex, i, err,
                    sequences, iterList, iterPos, opts, signPos, now >>
    /\ UNCHANGED histVars
    /\ UNCHANGED << shared, inflight >>

(***************************************************************************)
(* getMapHandler, up to the call of getPrefixMapping, which builds the     *)
(* list of physical prefixes and starts ranging over it.                   *)
(***************************************************************************)
\* getMapHandler, lines 243-251, with the two tests in the other order.
RequestRejectionPrefixFirst(method, prefix) ==
    IF prefix = EMPTY THEN HttpError("prefix cannot be empty", 400)
    ELSE IF method # "GET" THEN HttpError("method not allowed", 405)
    ELSE NoResponse

\* getMapHandler, lines 243-251: the response that ends the request before
\* any mapping is built, NoResponse when the request goes on.
RequestRejection(method, prefix) ==
    IF method # "GET" THEN HttpError("method not allowed", 405)
    ELSE IF prefix = EMPTY THEN HttpError("prefix cannot be empty", 400)
    ELSE NoResponse

MapRequest ==
    /\ pc = "getMapHandler"
    /\ IF RequestRejection(req.Method, TrimLeftSlash(urlPath)) # NoResponse
       THEN /\ resp' = RequestRejection(req.Method, TrimLeftSlash(urlPath))
            /\ pc' = "done"
            /\ UNCHANGED << prefixes, pIdx, m, mNil >>
       ELSE /\ prefixes' = getPrefixes(TrimLeftSlash(urlPath), config)
            /\ pIdx' = 1
            /\ m' = NewMapping.Sequences
            /\ mNil' = NewMapping.isNil
            /\ pc' = "expandPrefix"
            /\ resp' = resp
    /\ UNCHANGED << config, req, urlPath, lprefix, filterRegex, i, err, sequences,
                    iterList, iterPos, opts, signPos, now >>
    /\ UNCHANGED histVars
    /\ UNCHANGED << shared, inflight >>

(***************************************************************************)
(* getPrefixMapping's loop: expandPrefix is entered for the next physical  *)
(* prefix, or the mapping is returned to the handler, which appends the    *)
(* extra resources.                                                        *)
(***************************************************************************)
EnterExpand ==
    /\ pc = "expandPrefix"
    /\ pIdx <= Len(prefixes)
    /\ filterRegex' = SelectFilter(prefixes[pIdx], config)
    /\ lprefix' = ListerPrefix(prefixes[pIdx])
    /\ i' = 0
    /\ err' = Nil
    /\ pc' = "try"
    /\ attempts' = 0
    /\ lastOutcome' = Nil
    /\ partial' = {}
    /\ UNCHANGED << config, req, urlPath, prefixes, pIdx, m, mNil, sequences, iterList,
                    iterPos, opts, signPos, resp, now >>
    /\ UNCHANGED << expanded, listerCalls, listCount, injectRan, signRan, optsAt, preSign,
                    signerCalls >>
    /\ UNCHANGED << shared, inflight >>

\* The handler's part after getPrefixMapping returned (m, e).
AfterMapping(e) ==
    IF MappingFailed(e)
    THEN /\ resp' = HttpError(e, 500)
         /\ pc' = "done"
         /\ UNCHANGED << m, mNil, injectRan >>
    ELSE /\ m' = appendExtraResources(req.Resources, m)
         /\ mNil' = SliceNil(mNil, m')
         /\ injectRan' = TRUE
         /\ pc' = "signedURLs"
         /\ resp' = resp

MappingDone ==
    /\ pc = "expandPrefix"
    /\ pIdx > Len(prefixes)
    /\ AfterMapping(Nil)
    /\ attempts' = 0
    /\ lastOutcome' = Nil
    /\ partial' = {}
    /\ listCount' = 0
    /\ UNCHANGED << config, req, urlPath, prefixes, pIdx, lprefix, filterRegex, i, err,
                    sequences, iterList, iterPos, opts, signPos, now >>
    /\ UNCHANGED << expanded, listerCalls, signRan, optsAt, preSign, signerCalls >>
    /\ UNCHANGED << shared, inflight >>

(***************************************************************************)
(* expandPrefix's retry loop: a new listing is started, or the attempts    *)
(* are exhausted and the last error goes up to the handler, which answers  *)
(* 500.                                                                    *)
(***************************************************************************)
StartAttempt ==
    /\ pc = "try"
    /\ i < maxTry
    /\ \E store \in Stores : iterList' = Listing(store, lprefix)
    /\ iterPos' = 0
    /\ sequences' = NewAttemptSequences(sequences)
    /\ pc' = "next"
    /\ attempts' = attempts + 1
    /\ listCount' = listCount + 1
    /\ listerCalls' = listerCalls \cup
           {[idx |-> pIdx, Prefix |-> lprefix, filter |-> filterRegex]}
    /\ UNCHANGED << config, req, urlPath, prefixes, pIdx, m, mNil, lprefix, filterRegex, i,
                    err, opts, signPos, resp, now >>
    /\ UNCHANGED << lastOutcome, partial, expanded, injectRan, signRan,
                    optsAt, preSign, signerCalls >>
    /\ UNCHANGED << shared, inflight >>

Exhausted ==
    /\ pc = "try"
    /\ i >= maxTry
    /\ expanded' = Append(expanded, [ret |-> << >>, err |-> err, listed |-> << >>])
    /\ IF ExpandFailed(err)
       THEN /\ AfterMapping(err)
            /\ pIdx' = pIdx
       ELSE /\ m' = AppendSequences(m, << >>)
            /\ mNil' = SliceNil(mNil, m')
            /\ pIdx' = pIdx + 1
            /\ pc' = "expandPrefix"
            /\ UNCHANGED << injectRan, resp >>
    /\ UNCHANGED << config, req, urlPath, prefixes, lprefix, filterRegex, i, err,
                    sequences, iterList, iterPos, opts, signPos, now >>
    /\ UNCHANGED << attempts, lastOutcome, partial, listerCalls, listCount, signRan,
                    optsAt, preSign, signerCalls >>
    /\ UNCHANGED << shared, inflight >>

(***************************************************************************)
(* iter.Next(): the next object, iterator.Done after the last one, or an   *)
(* error at any point.                                                     *)
(***************************************************************************)
NextObject ==
    /\ pc = "next"
    /\ iterPos < Len(iterList)
    /\ iterPos' = iterPos + 1
    /\ err' = Nil
    /\ sequences' = AddObject(sequences, iterList[iterPos + 1], filterRegex)
    /\ UNCHANGED << config, req, pc, urlPath, prefixes, pIdx, m, mNil, lprefix, filterRegex,
                    i, iterList, opts, signPos, resp, now >>
    /\ UNCHANGED histVars
    /\ UNCHANGED << shared, inflight >>

NextDone ==
    /\ pc = "next"
    /\ iterPos = Len(iterList)
    /\ err' = Nil
    /\ lastOutcome' = Done
    /\ expanded' = Append(expanded, [ret |-> sequences, err |-> Nil, listed |-> iterList])
    /\ m' = AppendSequences(m, sequences)
    /\ mNil' = SliceNil(mNil, m')
    /\ pIdx' = pIdx + 1
    /\ pc' = "expandPrefix"
    /\ UNCHANGED << config, req, urlPath, prefixes, lprefix, filterRegex, i, sequences,
                    iterList, iterPos, opts, signPos, resp, now >>
    /\ UNCHANGED << attempts, partial, listerCalls, listCount, injectRan, signRan,
                    optsAt, preSign, signerCalls >>
    /\ UNCHANGED << shared, inflight >>

NextError ==
    /\ pc = "next"
    /\ \E e \in ListErrors :
         /\ err' = e
         /\ lastOutcome' = e
    /\ partial' = partial \cup {sequences[k] : k \in DOMAIN sequences}
    /\ i' = NextTry(i)
    /\ pc' = "try"
    /\ UNCHANGED << config, req, urlPath, prefixes, pIdx, m, mNil, lprefix, filterRegex,
                    sequences, iterList, iterPos, opts, signPos, resp, now >>
    /\ UNCHANGED << attempts, expanded, listerCalls, listCount, injectRan, signRan, optsAt,
                    preSign, signerCalls >>
    /\ UNCHANGED << shared, inflight >>

(***************************************************************************)
(* signedURLs: SignConfig.Options is called once; without options the      *)
(* mapping is returned as it is and the handler encodes it.                *)
(***************************************************************************)
StartSigning ==
    /\ pc = "signedURLs"
    /\ signRan' = TRUE
    /\ preSign' = m
    /\ optsAt' = now
    /\ opts' = Options(config.SignConfig, now)
    /\ signPos' = 0
    /\ IF opts'.enabled
       THEN /\ pc' = "signedPath"
            /\ resp' = resp
       ELSE /\ pc' = "done"
            /\ resp' = JsonResponse(m, mNil)
    /\ UNCHANGED << config, req, urlPath, prefixes, pIdx, m, mNil, lprefix, filterRegex, i,
                    err, sequences, iterList, iterPos, now >>
    /\ UNCHANGED << attempts, lastOutcome, partial, expanded, listerCalls, listCount, injectRan,
                    signerCalls >>
    /\ UNCHANGED << shared, inflight >>

\* The path of the clip the loops of signedURLs visit next.
NextClip == ClipPositions(m, 1)[signPos + 1]

NextClipPath == m[NextClip[1]].Clips[NextClip[2]].Path

\* signedPath, line 364: the expiry the signer is given is the options' own.
SignerExpiresAtCall(o, t, sc) == t + sc.Expiration

SignerExpires(o, t, sc) == o.Expires

\* The record of one storage.SignedURL call made at time t, which returned r.
SignerCall(p, o, t, r) ==
    [path |-> p, bucket |-> SplitN(p, SLASH, 3)[2], key |-> SplitN(p, SLASH, 3)[3],
     expires |-> SignerExpires(o, t, config.SignConfig), at |-> t, result |-> r]

\* signedPath returns the path as it is: no signer call.
SignSkip ==
    /\ pc = "signedPath"
    /\ signPos < Len(ClipPositions(m, 1))
    /\ ~NeedsSigning(NextClipPath)
    /\ signPos' = signPos + 1
    /\ UNCHANGED << config, req, pc, urlPath, prefixes, pIdx, m, mNil, lprefix, filterRegex,
                    i, err, sequences, iterList, iterPos, opts, resp, now >>
    /\ UNCHANGED histVars
    /\ UNCHANGED << shared, inflight >>

\* The signer succeeds: the clip's path is overwritten in place.
SignOK ==
    /\ pc = "signedPath"
    /\ signPos < Len(ClipPositions(m, 1))
    /\ NeedsSigning(NextClipPath)
    /\ signerCalls' = Append(signerCalls, SignerCall(NextClipPath, opts, now, Nil))
    /\ m' = [m EXCEPT ![NextClip[1]].Clips[NextClip[2]].Path =
                 signedPathOK(NextClipPath,
                     [opts EXCEPT !.Expires = SignerExpires(opts, now, config.SignConfig)])]
    /\ signPos' = signPos + 1
    /\ UNCHANGED << config, req, pc, urlPath, prefixes, pIdx, mNil, lprefix, filterRegex, i,
                    err, sequences, iterList, iterPos, opts, resp, now >>
    /\ UNCHANGED << attempts, lastOutcome, partial, expanded, listerCalls, listCount, injectRan,
                    signRan, optsAt, preSign >>
    /\ UNCHANGED << shared, inflight >>

\* The handler's part after signedURLs returned (m, e).
AfterSigning(e) ==
    /\ pc' = "done"
    /\ resp' = IF SigningFailed(e) THEN HttpError(e, 500) ELSE JsonResponse(m, mNil)

\* The signer fails: signedURLs returns the mapping and the error.
SignFail ==
    /\ pc = "signedPath"
    /\ signPos < Len(ClipPositions(m, 1))
    /\ NeedsSigning(NextClipPath)
    /\ \E e \in SignErrors :
         /\ signerCalls' = Append(signerCalls, SignerCall(NextClipPath, opts, now, e))
         /\ err' = e
         /\ AfterSigning(e)
    /\ UNCHANGED << config, req, urlPath, prefixes, pIdx, m, mNil, lprefix, filterRegex, i,
                    sequences, iterList, iterPos, opts, signPos, now >>
    /\ UNCHANGED << attempts, lastOutcome, partial, expanded, listerCalls, listCount, injectRan,
                    signRan, optsAt, preSign >>
    /\ UNCHANGED << shared, inflight >>

\* Every clip was visited: signedURLs returns (m, nil).
SignDone ==
    /\ pc = "signedPath"
    /\ signPos = Len(ClipPositions(m, 1))
    /\ AfterSigning(Nil)
    /\ UNCHANGED << config, req, urlPath, prefixes, pIdx, m, mNil, lprefix, filterRegex, i,
                    err, sequences, iterList, iterPos, opts, signPos, now >>
    /\ UNCHANGED histVars
    /\ UNCHANGED << shared, inflight >>

\* Time passes.  The clock is read by SignConfig.Options and when the signer
\* is called, so only the time that passes from signedURLs on is followed.
Tick ==
    /\ pc \in {"signedURLs", "signedPath"}
    /\ now < MaxTime
    /\ now' = now + 1
    /\ UNCHANGED << config, req, pc, resp >>
    /\ UNCHANGED codeVars
    /\ UNCHANGED histVars
    /\ UNCHANGED << shared, inflight >>

Next ==
    \/ Dispatch
    \/ MapRequest
    \/ EnterExpand
    \/ MappingDone
    \/ StartAttempt
    \/ Exhausted
    \/ NextObject
    \/ NextDone
    \/ NextError
    \/ StartSigning
    \/ SignSkip
    \/ SignOK
    \/ SignFail
    \/ SignDone
    \/ Tick

Spec == Init /\ [][Next]_vars

(***************************************************************************)
(* Requests in flight at once.  net/http runs the handler of each request  *)
(* on a goroutine of its own: r, prefix, m, err, prefixes, opts and seqs   *)
(* are that call's own, while the Config the handler closes over           *)
(* (getMapHandler, line 238), with the slice behind MapExtraPrefixes, is   *)
(* one value shared by all the calls.  A step of a request is what its     *)
(* handler does up to its next call of the lister or the signer.           *)
(***************************************************************************)
RequestIds == {"r1", "r2"}

ConcurrentConfigs ==
    {c \in Configs : c.MapExtraPrefixes = << << "s", "/" >> >> /\ c.MapRegexFilter = RegexP}

ConcurrentRequests ==
    {r \in Requests :
        /\ r.Path \in { << "/", "m", "/", "f", "/", "b", "/", "a" >>,
                        << "/", "m", "/", "f", "/", "b", "/", "a", "_", "_", "H", "D" >>,
                        << "/", "m", "/" >> }
        /\ r.Resources \in { << >>, << "/", "B", "/", "k" >> }
        /\ r.Method = "POST" => (r.Path = << "/", "m", "/" >> /\ r.Resources = << >>)}

\* The locals of a handler call that has not started, and the outcomes the
\* lister and the signer gave it (outcomes, signErr).
NewRequest(rq) ==
    [req |-> rq, pc |-> "getHandler", prefixes |-> << >>, pIdx |-> 0, m |-> << >>,
     mNil |-> TRUE, opts |-> NoOpts, signPos |-> 0, resp |-> NoResponse,
     outcomes |-> << >>, signErr |-> Nil]

\* getPrefixes writes the shared Config in place: each alternate prefix is
\* replaced by its joined form.
SharedAfterGetPrefixesInPlace(cfg, originalPrefix) ==
    [cfg EXCEPT !.MapExtraPrefixes =
        [k \in DOMAIN cfg.MapExtraPrefixes |->
            PathJoin(cfg.MapExtraPrefixes[k], PathSplitFile(originalPrefix))]]

\* getPrefixes, lines 294-301: the shared Config after the call.  The list is
\* built in a slice of the call's own ([]string{originalPrefix}) and
\* config.MapExtraPrefixes is only ranged over.
SharedAfterGetPrefixes(cfg, originalPrefix) == cfg

\* expandPrefix, lines 318-328, over a whole listing.
RECURSIVE FilterObjects(_, _, _)
FilterObjects(seqs, listed, regex) ==
    IF listed = << >> THEN seqs
    ELSE FilterObjects(AddObject(seqs, Head(listed), regex), Tail(listed), regex)

\* getHandler and getMapHandler up to the call of getPrefixMapping.
Accept(r) ==
    LET s == inflight[r]
        prefix == TrimLeftSlash(ReplaceFirst(s.req.Path, shared.MapPrefix))
        rejection == RequestRejection(s.req.Method, prefix)
    IN /\ s.pc = "getHandler"
       /\ IF ~HasPrefix(s.req.Path, shared.MapPrefix)
          THEN /\ inflight' = [inflight EXCEPT ![r] =
                      [s EXCEPT !.pc = "done",
                                !.resp = IF s.req.Path = << SLASH >>
                                         THEN [NoResponse EXCEPT !.status = 200]
                                         ELSE HttpError("not found", 404)]]
               /\ shared' = shared
          ELSE IF rejection # NoResponse
          THEN /\ inflight' = [inflight EXCEPT ![r] =
                      [s EXCEPT !.pc = "done", !.resp = rejection]]
               /\ shared' = shared
          ELSE /\ inflight' = [inflight EXCEPT ![r] =
                      [s EXCEPT !.pc = "expandPrefix",
                                !.prefixes = getPrefixes(prefix, shared),
                                !.pIdx = 1,
                                !.m = NewMapping.Sequences,
                                !.mNil = NewMapping.isNil]]
               /\ shared' = SharedAfterGetPrefixes(shared, prefix)
       /\ UNCHANGED handlerVars

\* expandPrefix for the next physical prefix, a listing reaching
\* iterator.Done: its Sequences are appended to the mapping.
Expand(r) ==
    LET s == inflight[r]
    IN /\ s.pc = "expandPrefix"
       /\ s.pIdx <= Len(s.prefixes)
       /\ \E store \in Stores :
            LET listed == Listing(store, ListerPrefix(s.prefixes[s.pIdx]))
                seqs == FilterObjects(<< >>, listed,
                                      SelectFilter(s.prefixes[s.pIdx], shared))
            IN inflight' = [inflight EXCEPT ![r] =
                   [s EXCEPT !.m = AppendSequences(s.m, seqs),
                             !.mNil = SliceNil(s.mNil, AppendSequences(s.m, seqs)),
                             !.pIdx = s.pIdx + 1,
                             !.outcomes = Append(s.outcomes,
                                                 [err |-> Nil, listed |-> listed])]]
       /\ UNCHANGED << handlerVars, shared >>

\* expandPrefix for the next physical prefix, every attempt ending with an
\* error: the handler answers 500.
ExpandFails(r) ==
    LET s == inflight[r]
    IN /\ s.pc = "expandPrefix"
       /\ s.pIdx <= Len(s.prefixes)
       /\ \E e \in ListErrors :
            inflight' = [inflight EXCEPT ![r] =
                [s EXCEPT !.pc = "done",
                          !.resp = HttpError(e, 500),
                          !.outcomes = Append(s.outcomes,
                                              [err |-> e, listed |-> << >>])]]
       /\ UNCHANGED << handlerVars, shared >>

\* getPrefixMapping returns the mapping; appendExtraResources.
Inject(r) ==
    LET s == inflight[r]
    IN /\ s.pc = "expandPrefix"
       /\ s.pIdx > Len(s.prefixes)
       /\ inflight' = [inflight EXCEPT ![r] =
              [s EXCEPT !.m = appendExtraResources(s.req.Resources, s.m),
                        !.mNil = SliceNil(s.mNil,
                                          appendExtraResources(s.req.Resources, s.m)),
                        !.pc = "signedURLs"]]
       /\ UNCHANGED << handlerVars, shared >>

\* signedURLs, lines 337-340: the options, and the mapping encoded as it is
\* when there are none.
BeginSigning(r) ==
    LET s == inflight[r]
        o == Options(shared.SignConfig, now)
    IN /\ s.pc = "signedURLs"
       /\ inflight' = [inflight EXCEPT ![r] =
              IF o.enabled
              THEN [s EXCEPT !.opts = o, !.signPos = 0, !.pc = "signedPath"]
              ELSE [s EXCEPT !.opts = o, !.pc = "done",
                             !.resp = JsonResponse(s.m, s.mNil)]]
       /\ UNCHANGED << handlerVars, shared >>

\* signedURLs, lines 342-352, for the next Clip: signedPath returns the path
\* as it is or the signed one.
SignClip(r) ==
    LET s == inflight[r]
        at == ClipPositions(s.m, 1)[s.signPos + 1]
        p == s.m[at[1]].Clips[at[2]].Path
    IN /\ s.pc = "signedPath"
       /\ s.signPos < Len(ClipPositions(s.m, 1))
       /\ inflight' = [inflight EXCEPT ![r] =
              [s EXCEPT !.signPos = s.signPos + 1,
                        !.m = IF NeedsSigning(p)
                              THEN [s.m EXCEPT ![at[1]].Clips[at[2]].Path =
                                        signedPathOK(p, s.opts)]
                              ELSE s.m]]
       /\ UNCHANGED << handlerVars, shared >>

\* signedURLs for the next Clip, the signer failing: the handler answers 500.
SignClipFails(r) ==
    LET s == inflight[r]
        at == ClipPositions(s.m, 1)[s.signPos + 1]
        p == s.m[at[1]].Clips[at[2]].Path
    IN /\ s.pc = "signedPath"
       /\ s.signPos < Len(ClipPositions(s.m, 1))
       /\ NeedsSigning(p)
       /\ \E e \in SignErrors :
            inflight' = [inflight EXCEPT ![r] =
                [s EXCEPT !.pc = "done", !.signErr = e, !.resp = HttpError(e, 500)]]
       /\ UNCHANGED << handlerVars, shared >>

\* signedURLs returns the signed mapping, which the handler encodes.
Encode(r) ==
    LET s == inflight[r]
    IN /\ s.pc = "signedPath"
       /\ s.signPos = Len(ClipPositions(s.m, 1))
       /\ inflight' = [inflight EXCEPT ![r] =
              [s EXCEPT !.pc = "done", !.resp = JsonResponse(s.m, s.mNil)]]
       /\ UNCHANGED << handlerVars, shared >>

InitConcurrent ==
    /\ config \in ConcurrentConfigs
    /\ req = [Method |-> "GET", Path |-> << SLASH >>, Resources |-> << >>]
    /\ InitHandler
    /\ shared = config
    /\ inflight \in [RequestIds -> {NewRequest(rq) : rq \in ConcurrentRequests}]

NextConcurrent ==
    \/ \E r \in RequestIds : Accept(r)
    \/ \E r \in RequestIds : Expand(r)
    \/ \E r \in RequestIds : ExpandFails(r)
    \/ \E r \in RequestIds : Inject(r)
    \/ \E r \in RequestIds : BeginSigning(r)
    \/ \E r \in RequestIds : SignClip(r)
    \/ \E r \in RequestIds : SignClipFails(r)
    \/ \E r \in RequestIds : Encode(r)

SpecConcurrent == InitConcurrent /\ [][NextConcurrent]_vars
(***************************************************************************)
(* Properties                                                              *)
(***************************************************************************)
\* What the specification expects of one successful listing: one Sequence of
\* one Clip, with path "/" + bucket + "/" + name, for every listed object whose
\* base filename matches the pattern, in listing order.
ExpectedSequences(listed, pattern) ==
    LET kept == SelectSeq(listed, LAMBDA o : MatchString(pattern, FilepathBase(o.Name)))
    IN [k \in 1..Len(kept) |->
           [Clips |-> << [Type |-> "source",
                          Path |-> << "/" >> \o kept[k].Bucket \o << "/" >> \o kept[k].Name] >>]]

\* The pattern the specification selects for a physical prefix.
ExpectedPattern(p) ==
    IF \E j \in 1..(Len(p) - 3) : SubSeq(p, j, j + 3) = << "_", "_", "H", "D" >>
    THEN config.MapRegexHDFilter
    ELSE config.MapRegexFilter

\* The last slash-delimited segment of a prefix.
LastSegment(p) == SplitOn(p, "/")[Len(SplitOn(p, "/"))]

\* An alternate-location prefix joined with the last segment of the original
\* prefix: one slash between the two, none when either is empty.
JoinedPrefix(alt, original) ==
    LET a == IF alt # << >> /\ alt[Len(alt)] = "/" THEN SubSeq(alt, 1, Len(alt) - 1) ELSE alt
        l == LastSegment(original)
    IN IF l = << >> THEN a
       ELSE IF a = << >> THEN l
       ELSE a \o << "/" >> \o l

\* A physical prefix without the first occurrence of the marker "__HD".
WithoutMarker(p) ==
    IF \E j \in 1..(Len(p) - 3) : SubSeq(p, j, j + 3) = << "_", "_", "H", "D" >>
    THEN LET j == CHOOSE j \in 1..(Len(p) - 3) :
                     /\ SubSeq(p, j, j + 3) = << "_", "_", "H", "D" >>
                     /\ \A h \in 1..(j - 1) : SubSeq(p, h, h + 3) # << "_", "_", "H", "D" >>
         IN SubSeq(p, 1, j - 1) \o SubSeq(p, j + 4, Len(p))
    ELSE p

\* C1: for a physical prefix whose listing failed once or more and then
\* reached iterator.Done, expandPrefix returns exactly the filtered objects of
\* the listing that reached Done, in its order: nothing a failed attempt had
\* collected is kept and nothing is doubled by the retry.
C1_RetryReturnsFinalAttemptOnly ==
    (pc = "expandPrefix" /\ lastOutcome = Done /\ attempts >= 2)
        => /\ expanded[Len(expanded)].err = Nil
           /\ expanded[Len(expanded)].ret =
                  ExpectedSequences(expanded[Len(expanded)].listed,
                                    ExpectedPattern(prefixes[Len(expanded)]))
           /\ \A j, k \in DOMAIN expanded[Len(expanded)].ret :
                  expanded[Len(expanded)].ret[j] = expanded[Len(expanded)].ret[k] => j = k

\* A retried listing returned: a failed attempt had collected a Sequence that
\* the listing which reached Done did not hold, and the result is not empty.
C1_Witness ==
    /\ pc = "expandPrefix"
    /\ lastOutcome = Done
    /\ attempts >= 2
    /\ expanded[Len(expanded)].ret # << >>
    /\ \E s \in partial :
           \A k \in DOMAIN expanded[Len(expanded)].ret : expanded[Len(expanded)].ret[k] # s

\* C2: when all 5 listing attempts for a physical prefix ended with an error
\* other than iterator.Done, expandPrefix returns no Sequences and the error
\* of the 5th attempt, and the response is 500 with that error's message as
\* its body and no manifest.
C2_ExhaustedReturnsLastError ==
    (pc = "done" /\ attempts = 5 /\ lastOutcome \in ListErrors)
        => /\ expanded[Len(expanded)].ret = << >>
           /\ expanded[Len(expanded)].err = lastOutcome
           /\ resp.status = 500
           /\ resp.text = lastOutcome
           /\ ~resp.json
           /\ resp.sequences = << >>

\* Five attempts failed for the second physical prefix, the last one with
\* "e2", after the first prefix had given Sequences.
C2_Witness ==
    /\ pc = "done"
    /\ attempts = 5
    /\ lastOutcome = "e2"
    /\ Len(expanded) = 2
    /\ expanded[1].ret # << >>
    /\ resp.status = 500

\* C3: between 1 and 5 listing attempts are started for one physical prefix;
\* an attempt after the first is started only when the one before ended with
\* an error other than iterator.Done, it lists from the beginning, and none is
\* started once iterator.Done was reached.
C3_AttemptsBounded ==
    /\ attempts <= 5
    /\ (pc = "try" /\ attempts >= 1) => lastOutcome \in ListErrors
    /\ pc = "next" => attempts >= 1
    /\ (pc = "expandPrefix" /\ expanded # << >>) => attempts >= 1
    /\ (pc = "done" /\ expanded # << >> /\ expanded[Len(expanded)].err # Nil) => attempts >= 1

C3_AttemptStep ==
    attempts' = attempts + 1
        => /\ attempts = 0 \/ lastOutcome \in ListErrors
           /\ lastOutcome # Done
           /\ iterPos' = 0
           /\ sequences' = << >>
           /\ \E store \in Stores : iterList' = Listing(store, lprefix)

C3_RetryPolicy == [](C3_AttemptsBounded) /\ [][C3_AttemptStep]_vars

\* The fifth attempt is running after four failed ones.
C3_Witness == pc = "next" /\ attempts = 5 /\ lastOutcome \in ListErrors /\ iterPos >= 1

\* C4: when the expansion of the k-th physical prefix fails, the lister is not
\* invoked for a later prefix, appendExtraResources and signedURLs do not run,
\* the signer is not called, and the response is 500 without a manifest.
C4_FailureAborts ==
    \A k \in DOMAIN expanded :
        expanded[k].err # Nil
            => /\ \A c \in listerCalls : c.idx <= k
               /\ Len(expanded) = k
               /\ ~injectRan
               /\ ~signRan
               /\ signerCalls = << >>
               /\ pc = "done"
               /\ resp.status = 500
               /\ ~resp.json
               /\ resp.sequences = << >>

\* The second of three physical prefixes failed after the first had given
\* Sequences, with extra resources in the request.
C4_Witness ==
    /\ Len(prefixes) = 3
    /\ Len(expanded) = 2
    /\ expanded[1].ret # << >>
    /\ expanded[2].err # Nil
    /\ req.Resources # << >>

\* The concatenation of what the specification expects of each listing.
RECURSIVE ExpectedMapping(_)
ExpectedMapping(k) ==
    IF k = 0 THEN << >>
    ELSE ExpectedMapping(k - 1)
         \o ExpectedSequences(expanded[k].listed, ExpectedPattern(prefixes[k]))

\* A path without its query.
WithoutQuery(p) == IF \E j \in 1..Len(p) : p[j] = "?" THEN SplitOn(p, "?")[1] ELSE p

\* C5: in a successful request the listing-derived Sequences are those of the
\* primary prefix, then those of each alternate location in configuration
\* order, each in the listing order of its successful attempt; none is dropped
\* or merged.
C5_ConcatenationOrder ==
    /\ signRan =>
          /\ Len(expanded) = 1 + Len(config.MapExtraPrefixes)
          /\ \A k \in DOMAIN expanded : \A j \in DOMAIN expanded[k].listed :
                 HasPrefix(expanded[k].listed[j].Name,
                           IF k = 1 THEN WithoutMarker(TrimLeftSlash(urlPath))
                           ELSE WithoutMarker(JoinedPrefix(config.MapExtraPrefixes[k - 1],
                                                           TrimLeftSlash(urlPath))))
          /\ Len(preSign) >= Len(ExpectedMapping(Len(expanded)))
          /\ SubSeq(preSign, 1, Len(ExpectedMapping(Len(expanded))))
                 = ExpectedMapping(Len(expanded))
    /\ (resp.status = 200 /\ resp.json) =>
          /\ Len(resp.sequences) = Len(preSign)
          /\ \A k \in 1..Len(ExpectedMapping(Len(expanded))) :
                 /\ Len(resp.sequences[k].Clips) = 1
                 /\ resp.sequences[k].Clips[1].Type = "source"
                 /\ WithoutQuery(resp.sequences[k].Clips[1].Path)
                        = ExpectedMapping(Len(expanded))[k].Clips[1].Path

\* A 200 manifest for a primary prefix and two equal alternate locations: the
\* primary's matches, then the same matches of the alternate location twice.
C5_Witness ==
    /\ resp.status = 200
    /\ resp.json
    /\ Len(expanded) = 3
    /\ expanded[1].ret # << >>
    /\ expanded[2].ret # << >>
    /\ expanded[2].ret = expanded[3].ret
    /\ expanded[1].ret # expanded[2].ret
    /\ Len(resp.sequences) >= Len(expanded[1].ret) + 2 * Len(expanded[2].ret)

\* C6: getPrefixes returns 1 + n physical prefixes for n alternate prefixes:
\* the original prefix unchanged, then each alternate prefix joined with the
\* last slash-delimited segment of the original one; equal entries are kept.
C6_GetPrefixes ==
    pc \notin {"getHandler", "getMapHandler"} /\ prefixes # << >>
        => /\ Len(prefixes) = Len(config.MapExtraPrefixes) + 1
           /\ prefixes[1] = TrimLeftSlash(urlPath)
           /\ \A k \in 1..Len(config.MapExtraPrefixes) :
                  prefixes[k + 1] = JoinedPrefix(config.MapExtraPrefixes[k], prefixes[1])

\* "f/b/a" with the alternate prefixes "s/" and "t" gives "s/a" and "t/a".
C6_Witness ==
    /\ config.MapExtraPrefixes = << << "s", "/" >>, << "t" >> >>
    /\ prefixes = << << "f", "/", "b", "/", "a" >>, << "s", "/", "a" >>, << "t", "/", "a" >> >>

\* C7: a physical prefix that contains "__HD" is listed, in every attempt,
\* with the high-definition pattern and with only the first occurrence of the
\* marker removed from the prefix sent to the lister; one without the marker is
\* listed with the standard pattern and unchanged.
C7_FilterSelection ==
    /\ \A c \in listerCalls :
           /\ c.idx \in DOMAIN prefixes
           /\ c.filter = ExpectedPattern(prefixes[c.idx])
           /\ c.Prefix = WithoutMarker(prefixes[c.idx])
    /\ pc \in {"try", "next"} =>
           /\ filterRegex = ExpectedPattern(prefixes[pIdx])
           /\ lprefix = WithoutMarker(prefixes[pIdx])

\* A prefix with the marker twice was listed: the prefix sent to the lister
\* still holds the second one, and the pattern was the high-definition one.
C7_Witness ==
    \E c \in listerCalls :
        /\ prefixes[c.idx] = << "a", "_", "_", "H", "D", "_", "_", "H", "D" >>
        /\ c.Prefix = << "a", "_", "_", "H", "D" >>
        /\ c.filter = config.MapRegexHDFilter
        /\ attempts >= 2

\* The storage-locator shape "/" + bucket + "/" + key: an empty first segment,
\* then the bucket, then the key.
StorageLocatorShape(p) ==
    /\ Len(p) >= 2
    /\ p[1] = "/"
    /\ \E j \in 2..Len(p) : p[j] = "/"

\* C8: with signing enabled, the signer is called for, and the path rewritten
\* of, a Clip only when its path has the storage-locator shape; a Clip whose
\* path has not that shape keeps its path and causes no signer call.
C8_SignsOnlyStorageLocators ==
    /\ \A k \in DOMAIN signerCalls : StorageLocatorShape(signerCalls[k].path)
    /\ (resp.status = 200 /\ resp.json) =>
           \A k \in DOMAIN preSign :
               ~StorageLocatorShape(preSign[k].Clips[1].Path)
                   => resp.sequences[k].Clips[1].Path = preSign[k].Clips[1].Path

\* C9 as stated: the expiry given to the signer for a Clip is the time of that
\* Clip's signing call plus the configured expiration.
C9_ExpiryPerClip ==
    \A k \in DOMAIN signerCalls :
        signerCalls[k].expires = signerCalls[k].at + config.SignConfig.Expiration

\* C9 as amended: the expiry given to the signer is, for every Clip of the
\* manifest, the time at which signedURLs obtained the options, before the
\* first Clip was signed, plus the configured expiration: the Clips of one
\* manifest share one expiry.
C9_ExpirySharedByManifest ==
    /\ \A k \in DOMAIN signerCalls :
           /\ signerCalls[k].expires = optsAt + config.SignConfig.Expiration
           /\ signerCalls[k].at >= optsAt
    /\ \A j, k \in DOMAIN signerCalls : signerCalls[j].expires = signerCalls[k].expires

\* Two Clips of one manifest were signed at different times.
C9_Witness ==
    \E j, k \in DOMAIN signerCalls :
        /\ signerCalls[j].at < signerCalls[k].at
        /\ signerCalls[j].result = Nil
        /\ signerCalls[k].result = Nil
        /\ optsAt < signerCalls[j].at

\* C10: when the signer fails for a Clip, the response is 500 with the
\* error's message and no manifest is written, however many Clips were signed
\* before.
C10_SigningFailureAborts ==
    \A k \in DOMAIN signerCalls :
        signerCalls[k].result # Nil
            => /\ k = Len(signerCalls)
               /\ pc = "done"
               /\ resp.status = 500
               /\ resp.text = signerCalls[k].result
               /\ ~resp.json
               /\ resp.sequences = << >>

\* The signer failed for the third Clip after two Clips were signed: the
\* mapping holds signed and unsigned paths.
C10_Witness ==
    /\ Len(signerCalls) = 3
    /\ signerCalls[3].result # Nil
    /\ m[1].Clips[1].Path # preSign[1].Clips[1].Path
    /\ m[3].Clips[1].Path = preSign[3].Clips[1].Path

\* Signing is disabled by the configuration: no access identity or no key.
SigningDisabled ==
    config.SignConfig.AccessID = << >> \/ config.SignConfig.PrivateKey = Nil

\* C11: when signing is disabled (the access identity is empty or the private
\* key is not configured), Options yields no options and no error, signedURLs
\* returns the manifest it was given unchanged (every Sequence and Clip path,
\* in the same order) without an error and without calling the signer, and
\* the handler encodes that manifest.
C11_DisabledSigningPassesThrough ==
    (signRan /\ SigningDisabled)
        => /\ opts = NoOpts
           /\ signerCalls = << >>
           /\ m = preSign
           /\ pc = "done"
           /\ resp.status = 200
           /\ resp.json
           /\ resp.sequences = preSign

\* signedURLs ran with an access identity but no private key, over a manifest
\* that holds a storage locator.
C11_Witness ==
    /\ signRan
    /\ config.SignConfig.AccessID # << >>
    /\ config.SignConfig.PrivateKey = Nil
    /\ \E s \in DOMAIN preSign : NeedsSigning(preSign[s].Clips[1].Path)
    /\ pc = "done"

\* The Sequences expandPrefix returned for the first k physical prefixes, in
\* the order getPrefixMapping appended them.
RECURSIVE ListedSequences(_)
ListedSequences(k) ==
    IF k = 0 THEN << >> ELSE ListedSequences(k - 1) \o expanded[k].ret

\* The non-empty comma-delimited tokens of a parameter value from position a
\* on, in order: a token is a longest run of characters other than commas.
RECURSIVE TokensFrom(_, _)
TokensFrom(s, a) ==
    IF a > Len(s) THEN << >>
    ELSE IF s[a] = "," THEN TokensFrom(s, a + 1)
    ELSE LET b == CHOOSE b \in a..Len(s) :
                      /\ \A j \in a..b : s[j] # ","
                      /\ (b = Len(s) \/ s[b + 1] = ",")
         IN << SubSeq(s, a, b) >> \o TokensFrom(s, b + 1)

\* C12: appendExtraResources appends, after the Sequences derived from the
\* listings and in token order, exactly one Sequence of one Clip (type
\* "source", path the token as it is) for every non-empty token of the
\* comma-split parameter value; an absent or empty parameter appends
\* nothing; the Sequences already in the manifest are unchanged; a token is
\* added whether or not it matches a filter pattern.
C12_ExtraResourcesAppended ==
    (injectRan /\ pc = "signedURLs")
        => LET tokens == TokensFrom(req.Resources, 1)
           IN /\ Len(m) = Len(ListedSequences(Len(expanded))) + Len(tokens)
              /\ SubSeq(m, 1, Len(ListedSequences(Len(expanded))))
                     = ListedSequences(Len(expanded))
              /\ \A k \in DOMAIN tokens :
                     m[Len(ListedSequences(Len(expanded))) + k]
                         = [Clips |-> << [Type |-> "source", Path |-> tokens[k]] >>]
              /\ req.Resources = << >> => m = ListedSequences(Len(expanded))

\* The parameter held an empty token between two tokens, neither of which
\* matches a filter pattern, and the listings gave Sequences: two Sequences
\* were appended after them.
C12_Witness ==
    /\ injectRan
    /\ pc = "signedURLs"
    /\ req.Resources = << "x", ",", ",", "y", "/", "z", "/", "w" >>
    /\ ListedSequences(Len(expanded)) # << >>
    /\ Len(m) = Len(ListedSequences(Len(expanded))) + 2
    /\ m[Len(m)].Clips[1].Path = << "y", "/", "z", "/", "w" >>

\* The handler of the mapping endpoint was reached by the request.
ReachedMapHandler == HasPrefix(req.Path, config.MapPrefix)

\* r.URL.Path of the request without the mapping prefix and without leading
\* slashes.
NormalizedPrefix ==
    LET rest == SubSeq(req.Path, Len(config.MapPrefix) + 1, Len(req.Path))
    IN IF \A j \in DOMAIN rest : rest[j] = "/" THEN << >>
       ELSE SubSeq(rest, CHOOSE j \in DOMAIN rest :
                             rest[j] # "/" /\ \A h \in 1..(j - 1) : rest[h] = "/",
                   Len(rest))

\* C13: a request with a method other than GET is answered 405 "method not
\* allowed", also when its prefix is empty; a GET request whose prefix is
\* empty once the leading slashes are trimmed is answered 400 "prefix cannot
\* be empty"; in neither case is the lister, the injection of extra resources
\* or the signer called.
C13_RejectedBeforeAnyWork ==
    /\ (pc = "done" /\ ReachedMapHandler /\ req.Method # "GET")
           => resp = [status |-> 405, text |-> "method not allowed",
                      json |-> FALSE, null |-> FALSE,
                      sequences |-> << >>]
    /\ (pc = "done" /\ ReachedMapHandler /\ req.Method = "GET" /\ NormalizedPrefix = << >>)
           => resp = [status |-> 400, text |-> "prefix cannot be empty",
                      json |-> FALSE, null |-> FALSE,
                      sequences |-> << >>]
    /\ (ReachedMapHandler /\ (req.Method # "GET" \/ NormalizedPrefix = << >>))
           => /\ listerCalls = {}
              /\ attempts = 0
              /\ ~injectRan
              /\ ~signRan
              /\ signerCalls = << >>
              /\ m = << >>
    /\ resp.status \in {400, 405}
           => /\ ReachedMapHandler
              /\ req.Method # "GET" \/ NormalizedPrefix = << >>

\* A request with another method and an empty prefix was answered 405.
C13_Witness ==
    /\ pc = "done"
    /\ req.Method = "POST"
    /\ ReachedMapHandler
    /\ NormalizedPrefix = << >>
    /\ req.Resources # << >>
    /\ resp.status = 405

\* No listing of the request failed through all its attempts and no signer
\* call failed.
NoPersistentFailure ==
    /\ \A k \in DOMAIN expanded : expanded[k].err = Nil
    /\ \A k \in DOMAIN signerCalls : signerCalls[k].result = Nil

\* C14: a filter pattern that does not compile never makes a request fail:
\* under it every listed object counts as not matching, so the expansion of
\* the prefix succeeds with zero Sequences when the listing reaches
\* iterator.Done, an attempt is repeated only after an error of the lister,
\* and the request is answered 200 with the manifest built from the other
\* prefixes and the injected resources.
C14_MalformedPatternMatchesNothing ==
    /\ \A k \in DOMAIN expanded :
           ~ExpectedPattern(prefixes[k]).valid
               => /\ expanded[k].err = Nil => expanded[k].ret = << >>
                  /\ expanded[k].err # Nil => expanded[k].err \in ListErrors
    /\ (pc \in {"try", "next"} /\ ~ExpectedPattern(prefixes[pIdx]).valid)
           => /\ pc = "next" => sequences = << >>
              /\ i >= 1 => (lastOutcome \in ListErrors /\ partial = {})
    /\ (/\ pc = "done"
        /\ expanded # << >>
        /\ \E k \in DOMAIN expanded : ~ExpectedPattern(prefixes[k]).valid
        /\ NoPersistentFailure)
           => /\ resp.status = 200
              /\ resp.json
              /\ Len(resp.sequences)
                     = Len(ExpectedMapping(Len(expanded)))
                           + Len(TokensFrom(req.Resources, 1))

\* A request was answered 200 though the standard pattern does not compile:
\* the alternate prefix listed objects and gave no Sequence, the primary
\* prefix, under the HD pattern, gave one, and a resource was injected.
C14_Witness ==
    /\ pc = "done"
    /\ resp.status = 200
    /\ ~config.MapRegexFilter.valid
    /\ req.Resources # << >>
    /\ \E k \in DOMAIN expanded :
           /\ ~ExpectedPattern(prefixes[k]).valid
           /\ expanded[k].listed # << >>
           /\ expanded[k].ret = << >>
    /\ \E k \in DOMAIN expanded : expanded[k].ret # << >>
    /\ Len(resp.sequences) >= 2

\* C15: a listing that reaches iterator.Done without a matching object is a
\* success and the request goes on; when every physical prefix gave no
\* Sequence and no extra resource was given, the response is 200 with a
\* manifest whose "sequences" is the empty list, never null; a response 500
\* comes only from a listing error that lasted through all the attempts of a
\* prefix or from a failure of the signer.
C15_EmptyManifestIsSuccess ==
    /\ (pc = "expandPrefix" /\ lastOutcome = Done /\ expanded[Len(expanded)].ret = << >>)
           => /\ expanded[Len(expanded)].err = Nil
              /\ pIdx = Len(expanded) + 1
              /\ resp = NoResponse
    /\ (/\ pc = "done"
        /\ expanded # << >>
        /\ \A k \in DOMAIN expanded : expanded[k].err = Nil /\ expanded[k].ret = << >>
        /\ TokensFrom(req.Resources, 1) = << >>)
           => resp = [status |-> 200, text |-> "", json |-> TRUE, null |-> FALSE,
                      sequences |-> << >>]
    /\ resp.json => ~resp.null
    /\ resp.status = 500
           => \/ /\ expanded # << >>
                 /\ expanded[Len(expanded)].err \in ListErrors
                 /\ attempts = 5
                 /\ lastOutcome \in ListErrors
                 /\ resp.text = expanded[Len(expanded)].err
              \/ /\ signerCalls # << >>
                 /\ signerCalls[Len(signerCalls)].result \in SignErrors
                 /\ resp.text = signerCalls[Len(signerCalls)].result

\* With signing enabled, two physical prefixes listed objects of which none
\* matched, no extra resource was given, and the response is 200 with an
\* empty list.
C15_Witness ==
    /\ pc = "done"
    /\ resp.status = 200
    /\ resp.json
    /\ resp.sequences = << >>
    /\ ~resp.null
    /\ opts.enabled
    /\ Len(expanded) >= 2
    /\ \A k \in DOMAIN expanded : expanded[k].listed # << >> /\ expanded[k].ret = << >>

\* C16: the lister is never called with an empty prefix, for the primary
\* prefix and every alternate prefix, after the marker was removed.
C16_ListerPrefixNeverEmpty ==
    \A c \in listerCalls : c.Prefix # << >>

\* The marker "__HD" occurs in p.
CarriesMarker(p) ==
    \E j \in 1..(Len(p) - 3) : SubSeq(p, j, j + 3) = << "_", "_", "H", "D" >>

StepsLeft ==
    LET perAttempt == Len(StoreFull) + 2
        perPrefix == maxTry * perAttempt + 2
        signing == (Len(config.MapExtraPrefixes) + 1) * Len(StoreFull)
                       + Len(req.Resources) + 3
    IN CASE pc = "getHandler" ->
                signing + (Len(config.MapExtraPrefixes) + 1) * perPrefix + 3
         [] pc = "getMapHandler" ->
                signing + (Len(config.MapExtraPrefixes) + 1) * perPrefix + 2
         [] pc = "expandPrefix" ->
                signing + (Len(prefixes) - pIdx + 1) * perPrefix + 1
         [] pc = "try" ->
                signing + (Len(prefixes) - pIdx) * perPrefix + (maxTry - i) * perAttempt + 2
         [] pc = "next" ->
                signing + (Len(prefixes) - pIdx) * perPrefix
                    + (maxTry - i - 1) * perAttempt + (Len(iterList) - iterPos) + 3
         [] pc = "signedURLs" -> Len(ClipPositions(m, 1)) + 2
         [] pc = "signedPath" -> Len(ClipPositions(m, 1)) - signPos + 1
         [] pc = "done" -> 0

\* In every state: the request has a response exactly when the handler has
\* returned, and a request to the mapping endpoint is answered 200, 400, 405
\* or 500; the lister was called at most 5 times for the primary prefix and
\* each alternate prefix; the signer was called at most once for each Clip
\* visited.
C18_Bounds ==
    /\ StepsLeft \in Nat
    /\ (pc = "done") <=> (resp # NoResponse)
    /\ (pc = "done" /\ ReachedMapHandler) => resp.status \in {200, 400, 405, 500}
    /\ listCount <= 5 * (1 + Len(config.MapExtraPrefixes))
    /\ Len(signerCalls) <= Len(ClipPositions(preSign, 1))
    /\ Len(signerCalls) <= IF pc = "done" THEN signPos + 1 ELSE signPos

\* In every step: but for a tick of the clock, the steps left decrease; a
\* response, once written, stays; a signer call is for the next Clip of the
\* manifest and moves on to the Clip after it or ends the request.
C18_Step ==
    /\ now' = now => StepsLeft' < StepsLeft
    /\ resp # NoResponse => resp' = resp
    /\ signerCalls' # signerCalls
           => /\ Len(signerCalls') = Len(signerCalls) + 1
              /\ signerCalls'[Len(signerCalls')].path = NextClipPath
              /\ signPos' = signPos + 1 \/ pc' = "done"

\* C18: every request ends with exactly one response (200, 400, 405 or 500)
\* after a bounded number of steps, each listing attempt and each signer call
\* ending; the lister is called at most 5 x (1 + number of alternate
\* prefixes) times in a request and the signer at most once per Clip.
C18_TerminatesWithinBounds == [](C18_Bounds) /\ [][C18_Step]_vars

\* With two alternate prefixes, each of the three listings failed four times
\* and reached iterator.Done at the fifth attempt: 15 lister calls.
C18_Witness ==
    /\ Len(config.MapExtraPrefixes) = 2
    /\ pc = "expandPrefix"
    /\ pIdx > Len(prefixes)
    /\ lastOutcome = Done
    /\ listCount = 5 * (1 + Len(config.MapExtraPrefixes))

\* What follows the first slash of a path, after a slash: the path of a
\* signed URL, for a path the signer was given.
AfterFirstSlash(p) ==
    LET j == CHOOSE j \in DOMAIN p : p[j] = "/" /\ \A h \in 1..(j - 1) : p[h] # "/"
    IN << "/" >> \o SubSeq(p, j + 1, Len(p))

\* C20: in every manifest answered with 200, every Sequence holds exactly
\* one Clip and every Clip has type "source", for the Sequences derived from
\* listings and the injected ones alike; signing keeps the number and the
\* order of Sequences and Clips and changes nothing but Clip paths.
C20_OneSourceClipPerSequence ==
    /\ (resp.status = 200 /\ resp.json)
           => /\ \A s \in DOMAIN resp.sequences :
                     /\ Len(resp.sequences[s].Clips) = 1
                     /\ resp.sequences[s].Clips[1].Type = "source"
                     /\ DOMAIN resp.sequences[s] = {"Clips"}
                     /\ DOMAIN resp.sequences[s].Clips[1] = {"Type", "Path"}
              /\ Len(resp.sequences)
                     = Len(ListedSequences(Len(expanded)))
                           + Len(TokensFrom(req.Resources, 1))
    /\ signRan
           => /\ Len(m) = Len(preSign)
              /\ \A s \in DOMAIN m :
                     /\ Len(m[s].Clips) = Len(preSign[s].Clips)
                     /\ \A c \in DOMAIN m[s].Clips :
                            /\ m[s].Clips[c].Type = preSign[s].Clips[c].Type
                            /\ \/ m[s].Clips[c].Path = preSign[s].Clips[c].Path
                               \/ /\ opts.enabled
                                  /\ WithoutQuery(m[s].Clips[c].Path)
                                         = AfterFirstSlash(preSign[s].Clips[c].Path)

\* A manifest with Sequences from listings and injected ones was signed and
\* answered with 200: the path of a listed Clip and of an injected one
\* changed.
C20_Witness ==
    /\ resp.status = 200
    /\ resp.json
    /\ opts.enabled
    /\ ListedSequences(Len(expanded)) # << >>
    /\ Len(resp.sequences) >= Len(ListedSequences(Len(expanded))) + 2
    /\ resp.sequences[1].Clips[1].Path # preSign[1].Clips[1].Path
    /\ resp.sequences[Len(resp.sequences)].Clips[1].Path
           # preSign[Len(preSign)].Clips[1].Path

\* The Sequences a request handled alone gets from the first k physical
\* prefixes, for the listings the lister gave it.
RECURSIVE AloneMapping(_, _, _)
AloneMapping(ps, outs, k) ==
    IF k = 0 THEN << >>
    ELSE AloneMapping(ps, outs, k - 1)
         \o ExpectedSequences(outs[k].listed, ExpectedPattern(ps[k]))

\* A manifest with the Clips from position pos on signed.
RECURSIVE AloneSigned(_, _, _)
AloneSigned(ms, o, pos) ==
    IF pos > Len(ClipPositions(ms, 1)) THEN ms
    ELSE LET at == ClipPositions(ms, 1)[pos]
             p == ms[at[1]].Clips[at[2]].Path
         IN AloneSigned(IF NeedsSigning(p)
                        THEN [ms EXCEPT ![at[1]].Clips[at[2]].Path = signedPathOK(p, o)]
                        ELSE ms,
                        o, pos + 1)

\* The logical prefix of a request under the configuration the handler was
\* built with.
LogicalPrefix(rq) == TrimLeftSlash(ReplaceFirst(rq.Path, config.MapPrefix))

\* The manifest of a request handled alone before it is signed, for the
\* listings the lister gave it.
AloneManifest(s) ==
    appendExtraResources(s.req.Resources,
        AloneMapping(getPrefixes(LogicalPrefix(s.req), config), s.outcomes,
                     Len(s.outcomes)))

\* The response of a request handled alone under the configuration the
\* handler was built with, for the outcomes the lister and the signer gave
\* it.
AloneResponse(s) ==
    IF RequestRejection(s.req.Method, LogicalPrefix(s.req)) # NoResponse
    THEN RequestRejection(s.req.Method, LogicalPrefix(s.req))
    ELSE IF s.outcomes # << >> /\ s.outcomes[Len(s.outcomes)].err # Nil
    THEN [status |-> 500, text |-> s.outcomes[Len(s.outcomes)].err, json |-> FALSE,
          null |-> FALSE, sequences |-> << >>]
    ELSE IF ~Options(config.SignConfig, now).enabled
    THEN [status |-> 200, text |-> "", json |-> TRUE, null |-> FALSE,
          sequences |-> AloneManifest(s)]
    ELSE IF s.signErr # Nil
    THEN [status |-> 500, text |-> s.signErr, json |-> FALSE, null |-> FALSE,
          sequences |-> << >>]
    ELSE [status |-> 200, text |-> "", json |-> TRUE, null |-> FALSE,
          sequences |-> AloneSigned(AloneManifest(s), Options(config.SignConfig, now), 1)]

\* C19: requests handled at once do not interfere: under every interleaving
\* of their listing, injection and signing steps, the shared configuration,
\* its list of alternate prefixes included, is never written, the manifest a
\* request is building holds what that request alone would have collected
\* and nothing of another request, and its response is the response it gets
\* when handled alone with the same outcomes of the lister and the signer.
C19_NoInterference ==
    /\ shared = config
    /\ \A r \in RequestIds :
           /\ inflight[r].pc = "done" => inflight[r].resp = AloneResponse(inflight[r])
           /\ inflight[r].pc = "expandPrefix"
                  => /\ inflight[r].prefixes
                            = getPrefixes(LogicalPrefix(inflight[r].req), config)
                     /\ inflight[r].m
                            = AloneMapping(inflight[r].prefixes, inflight[r].outcomes,
                                           Len(inflight[r].outcomes))
           /\ inflight[r].pc = "signedURLs" => inflight[r].m = AloneManifest(inflight[r])
           /\ inflight[r].pc = "signedPath"
                  => AloneSigned(inflight[r].m, inflight[r].opts, inflight[r].signPos + 1)
                         = AloneSigned(AloneManifest(inflight[r]), inflight[r].opts, 1)

\* Two different requests are in flight at once: one is between two calls of
\* the signer, the other between the listings of its two physical prefixes,
\* and both hold Sequences.
C19_Witness ==
    /\ inflight["r1"].req # inflight["r2"].req
    /\ inflight["r1"].pc = "signedPath"
    /\ inflight["r1"].signPos >= 1
    /\ inflight["r1"].signPos < Len(ClipPositions(inflight["r1"].m, 1))
    /\ inflight["r2"].pc = "expandPrefix"
    /\ inflight["r2"].pIdx = 2
    /\ inflight["r2"].m # << >>
    /\ inflight["r2"].m[1] # inflight["r1"].m[1]

\* The request path begins with the configured map prefix.
StartsWithMapPrefix ==
    /\ Len(config.MapPrefix) <= Len(req.Path)
    /\ \A j \in 1..Len(config.MapPrefix) : req.Path[j] = config.MapPrefix[j]

\* C21: getHandler gives each request exactly one of three outcomes, decided
\* in this order: a path that begins with the map prefix goes to the mapping
\* handler, with the first occurrence of the map prefix removed from the
\* path; otherwise the path "/" is answered 200 (health check); otherwise
\* the answer is 404; the last two without any call of the lister.
C21_DispatchOrder ==
    /\ pc = "getHandler" => (resp = NoResponse /\ urlPath = req.Path)
    /\ (pc # "getHandler" /\ StartsWithMapPrefix)
           => /\ urlPath = SubSeq(req.Path, Len(config.MapPrefix) + 1, Len(req.Path))
              /\ pc = "done"
                     => \/ resp.status \in {400, 405, 500}
                        \/ resp.status = 200 /\ resp.json
    /\ (pc # "getHandler" /\ ~StartsWithMapPrefix)
           => /\ pc = "done"
              /\ urlPath = req.Path
              /\ resp = IF req.Path = << "/" >>
                        THEN [status |-> 200, text |-> "", json |-> FALSE,
                              null |-> FALSE, sequences |-> << >>]
                        ELSE [status |-> 404, text |-> "not found", json |-> FALSE,
                              null |-> FALSE, sequences |-> << >>]
              /\ listerCalls = {}
              /\ listCount = 0
              /\ attempts = 0
              /\ ~injectRan
              /\ ~signRan
              /\ signerCalls = << >>

\* The map prefix is "/" and the path is "/": the request went to the
\* mapping handler, which answered 400 for the empty prefix, and not to the
\* health check.
C21_Witness ==
    /\ config.MapPrefix = << "/" >>
    /\ req.Path = << "/" >>
    /\ req.Method = "GET"
    /\ pc = "done"
    /\ urlPath = << >>
    /\ resp.status = 400

=============================================================================
